---- MODULE Spec2Model ----
(***************************************************************************)
(* Gate-pass backend (src/app.py): a Flask application over one Firestore  *)
(* collection, "gate_pass_requests".  The state is the collection, the     *)
(* server clock, and the last request together with its response.          *)
(*                                                                         *)
(* A JSON object / Firestore document is a function from field names to    *)
(* values.  A header value is a sequence of chunks: " " is one space       *)
(* character, every other chunk is a run of non-space characters.          *)
(***************************************************************************)
EXTENDS Integers, Sequences, FiniteSets, TLC

VARIABLES store, now, last, stats, pc, upd, hist

vars == <<store, now, last, stats, pc, upd, hist>>

\* ------------------------------------------------------------------ bounds
MaxRecords == 2
MaxTime == 2

Ids == 1..MaxRecords

\* --------------------------------------------------------------- constants
SECRET_TOKEN == "default_secret_token"

\* the required list with its last entry dropped
RequiredFieldsNine ==
  {"pass_type", "prn_number", "department", "name", "wing", "room_number",
   "reason", "phone_no", "proposed_visit"}

RequiredFields ==
  {"pass_type", "prn_number", "department", "name", "wing", "room_number",
   "reason", "phone_no", "proposed_visit", "outing_dates"}

PassTypes == {"local", "leave"}

\* a status check that also lets "Pending" through
UpdateStatusesWithPending == {"Approved", "Rejected", "Pending"}

UpdateStatuses == {"Approved", "Rejected"}

\* ------------------------------------------------------------ dictionaries
EmptyDict == <<>>

\* dict.update(u) / the field-wise merge done by DocumentReference.update
DictUpdate(d, u) ==
  [k \in (DOMAIN d) \cup (DOMAIN u) |-> IF k \in DOMAIN u THEN u[k] ELSE d[k]]

\* dict.get(k, default)
DictGet(d, k, default) == IF k \in DOMAIN d THEN d[k] ELSE default

\* request.json: either JSON null (Python None) or a JSON object
JsonNull == [null |-> TRUE, obj |-> EmptyDict]
JsonObj(d) == [null |-> FALSE, obj |-> d]

\* ------------------------------------------------------------------- store
\* DocumentReference.set(data): creates or replaces the whole document
DocSet(s, id, d) ==
  [i \in (DOMAIN s) \cup {id} |-> IF i = id THEN d ELSE s[i]]

\* an update that replaces the document by update_data
DocUpdateReplace(s, id, u) ==
  [i \in DOMAIN s |-> IF i = id THEN u ELSE s[i]]

\* DocumentReference.update(update_data): merges fields into the document
DocUpdate(s, id, u) ==
  [i \in DOMAIN s |-> IF i = id THEN DictUpdate(s[i], u) ELSE s[i]]

\* an existence check that never fails
DocExistsAlways(s, id) == TRUE

\* doc_ref.get().exists
DocExists(s, id) == id \in DOMAIN s

\* an identifier source that may repeat an identifier
Uuid4Any(issued) == Ids

\* uuid.uuid4(): the identifiers it can return, given those already issued
Uuid4(issued) == Ids \ issued

\* ----------------------------------------------------------- access guard
NoHeader == [present |-> FALSE, value |-> <<>>]
Header(v) == [present |-> TRUE, value |-> v]

ValidHeader == Header(<<"Bearer", " ", SECRET_TOKEN>>)

Headers ==
  { NoHeader,
    Header(<<>>),
    Header(<<"Bearer">>),
    Header(<<SECRET_TOKEN>>),
    Header(<<"Basic", " ", SECRET_TOKEN>>),
    Header(<<"Bearer", " ", "wrong">>),
    Header(<<"Bearer", " ", " ", SECRET_TOKEN>>),
    Header(<<"Bearer", " ", SECRET_TOKEN, "x">>),
    ValidHeader,
    Header(<<"Bearer", " ", SECRET_TOKEN, " ", "extra">>) }

\* str.startswith('Bearer ')
StartsWithBearer(v) == Len(v) >= 2 /\ v[1] = "Bearer" /\ v[2] = " "

\* str.split(' '): one piece per single space, empty pieces included
RECURSIVE Split(_)
Split(v) ==
  IF v = <<>> THEN << <<>> >>
  ELSE LET r == Split(Tail(v))
       IN  IF Head(v) = " " THEN << <<>> >> \o r
           ELSE << <<Head(v)>> \o Head(r) >> \o Tail(r)

\* check_authentication.wrapper for a non-OPTIONS request:
\* TRUE when the wrapped handler is called, FALSE when 401 is returned
Authorized(h) ==
  IF ~h.present \/ h.value = <<>> \/ ~StartsWithBearer(h.value) THEN FALSE
  ELSE Split(h.value)[2] = <<SECRET_TOKEN>>

\* check_authentication.wrapper: 200 (pre-flight answered by the wrapper),
\* 401, or 0 when the wrapped handler is called
CheckAuthentication(method, h) ==
  IF method = "OPTIONS" THEN 200
  ELSE IF ~Authorized(h) THEN 401
  ELSE 0

\* ---------------------------------------------------------------- requests
Idle ==
  [op |-> "none", method |-> "GET", hdr |-> NoHeader, id |-> 0,
   data |-> JsonNull, code |-> 0, ran |-> FALSE]

Response(op, method, h, id, data, code, ran) ==
  [op |-> op, method |-> method, hdr |-> h, id |-> id,
   data |-> data, code |-> code, ran |-> ran]

ZeroCounts == [c \in {"all", "pending", "approved", "rejected"} |-> 0]
ZeroStats == [b \in {"total", "local", "leave"} |-> ZeroCounts]

Init ==
  /\ store = EmptyDict
  /\ now = 0
  /\ last = Idle
  /\ stats = ZeroStats
  /\ pc = EmptyDict
  /\ upd = EmptyDict
  /\ hist = EmptyDict

\* stamps with created_at and updated_at taken in the opposite order
SubmitStampsSwapped(t1, t2, t3) ==
  [k \in {"timestamp", "status", "created_at", "updated_at"} |->
     CASE k = "timestamp" -> t1
       [] k = "status" -> "Pending"
       [] k = "created_at" -> t3
       [] k = "updated_at" -> t2]

\* the fields submit_gate_pass stamps onto the body (three clock reads)
SubmitStamps(t1, t2, t3) ==
  [k \in {"timestamp", "status", "created_at", "updated_at"} |->
     CASE k = "timestamp" -> t1
       [] k = "status" -> "Pending"
       [] k = "created_at" -> t2
       [] k = "updated_at" -> t3]

\* submit_gate_pass; d1, d2: clock advance between its datetime.now() calls
SubmitGatePass(method, data, d1, d2) ==
  /\ UNCHANGED <<stats, pc, upd, hist>>
  /\ IF method = "OPTIONS"
     THEN /\ last' = Response("submit", method, NoHeader, 0, data, 200, FALSE)
          /\ UNCHANGED <<store, now>>
     ELSE IF data.null \/ data.obj = EmptyDict
     THEN /\ last' = Response("submit", method, NoHeader, 0, data, 400, TRUE)
          /\ UNCHANGED <<store, now>>
     ELSE IF \E f \in RequiredFields : f \notin DOMAIN data.obj
     THEN /\ last' = Response("submit", method, NoHeader, 0, data, 400, TRUE)
          /\ UNCHANGED <<store, now>>
     ELSE IF data.obj["pass_type"] \notin PassTypes
     THEN /\ last' = Response("submit", method, NoHeader, 0, data, 400, TRUE)
          /\ UNCHANGED <<store, now>>
     ELSE /\ now + d1 + d2 <= MaxTime
          /\ \E gate_pass_id \in Uuid4(DOMAIN store) :
               /\ store' = DocSet(store, gate_pass_id,
                                  DictUpdate(data.obj,
                                     SubmitStamps(now, now + d1, now + d1 + d2)))
               /\ last' = Response("submit", method, NoHeader, gate_pass_id,
                                   data, 201, TRUE)
          /\ now' = now + d1 + d2

\* update_data that carries rejection_reason for every status
UpdateDataAlwaysReason(status, reason, t) ==
  [k \in {"status", "updated_at", "rejection_reason"} |->
     CASE k = "status" -> status
       [] k = "updated_at" -> t
       [] k = "rejection_reason" -> reason]

\* update_data built by update_gate_pass
UpdateData(status, reason, t) ==
  IF status = "Rejected"
  THEN [k \in {"status", "updated_at", "rejection_reason"} |->
          CASE k = "status" -> status
            [] k = "updated_at" -> t
            [] k = "rejection_reason" -> reason]
  ELSE [k \in {"status", "updated_at"} |->
          CASE k = "status" -> status
            [] k = "updated_at" -> t]

\* update_gate_pass behind check_authentication
UpdateGatePass(method, h, id, data) ==
  /\ UNCHANGED <<now, stats, pc, upd, hist>>
  /\ IF CheckAuthentication(method, h) # 0
     THEN /\ last' = Response("update", method, h, id, data,
                              CheckAuthentication(method, h), FALSE)
          /\ UNCHANGED store
     ELSE IF data.null
     THEN /\ last' = Response("update", method, h, id, data, 500, TRUE)
          /\ UNCHANGED store
     ELSE LET status == DictGet(data.obj, "status", "None")
              reason == DictGet(data.obj, "reason", "")
          IN  IF status \notin UpdateStatuses
              THEN /\ last' = Response("update", method, h, id, data, 400, TRUE)
                   /\ UNCHANGED store
              ELSE IF ~DocExists(store, id)
              THEN /\ last' = Response("update", method, h, id, data, 404, TRUE)
                   /\ UNCHANGED store
              ELSE /\ store' = DocUpdate(store, id, UpdateData(status, reason, now))
                   /\ last' = Response("update", method, h, id, data, 200, TRUE)

\* The read-only staff endpoints.  Response bodies are not kept: only the
\* status code and whether the wrapped handler ran.
ReadOnly(op, method, h, id, code) ==
  /\ UNCHANGED <<store, now, stats, pc, upd, hist>>
  /\ last' = IF CheckAuthentication(method, h) # 0
             THEN Response(op, method, h, id, JsonNull,
                           CheckAuthentication(method, h), FALSE)
             ELSE Response(op, method, h, id, JsonNull, code, TRUE)

\* get_gate_passes
GetGatePasses(method, h) == ReadOnly("get_gate_passes", method, h, 0, 200)

\* get_gate_passes_preview
GetGatePassesPreview(method, h) == ReadOnly("preview", method, h, 0, 200)

\* get_gate_pass_details
GetGatePassDetails(method, h, id) ==
  ReadOnly("details", method, h, id, IF DocExists(store, id) THEN 200 ELSE 404)

\* the fields download_pdf reads with gate_pass_data[...]
PdfFields ==
  {"pass_type", "name", "prn_number", "department", "wing", "room_number",
   "reason", "proposed_visit", "outing_dates", "phone_no", "status"}

\* download_pdf
DownloadPdf(method, h, id) ==
  ReadOnly("pdf", method, h, id,
           IF ~DocExists(store, id) THEN 404
           ELSE IF PdfFields \subseteq DOMAIN store[id] THEN 200
           ELSE 500)

\* str.lower() on the status strings that occur
Lower(st) ==
  CASE st \in {"Pending", "PENDING", "pending"} -> "pending"
    [] st \in {"Approved", "APPROVED", "approved"} -> "approved"
    [] st \in {"Rejected", "REJECTED", "rejected"} -> "rejected"
    [] st \in {"Cancelled", "cancelled"} -> "cancelled"
    [] OTHER -> "unknown"

\* a tally that adds every record to total.all
CountDocTotalAlways(acc, pass_data) ==
  LET pass_type == DictGet(pass_data, "pass_type", "unknown")
      status == Lower(DictGet(pass_data, "status", "unknown"))
      a1 == [acc EXCEPT !["total"]["all"] = @ + 1]
  IN  IF pass_type \in {"local", "leave"}
      THEN LET a2 == [a1 EXCEPT ![pass_type]["all"] = @ + 1]
           IN  IF status \in {"pending", "approved", "rejected"}
               THEN [a2 EXCEPT ![pass_type][status] = @ + 1,
                               !["total"][status] = @ + 1]
               ELSE a2
      ELSE a1

\* the body of the loop of get_statistics, for one document
CountDoc(acc, pass_data) ==
  LET pass_type == DictGet(pass_data, "pass_type", "unknown")
      status == Lower(DictGet(pass_data, "status", "unknown"))
  IN  IF pass_type \in {"local", "leave"}
      THEN LET a1 == [acc EXCEPT ![pass_type]["all"] = @ + 1,
                                 !["total"]["all"] = @ + 1]
           IN  IF status \in {"pending", "approved", "rejected"}
               THEN [a1 EXCEPT ![pass_type][status] = @ + 1,
                               !["total"][status] = @ + 1]
               ELSE a1
      ELSE acc

\* the loop of get_statistics over the streamed documents
RECURSIVE CountDocs(_, _, _)
CountDocs(s, ids, acc) ==
  IF ids = {} THEN acc
  ELSE LET i == CHOOSE x \in ids : TRUE
       IN  CountDocs(s, ids \ {i}, CountDoc(acc, s[i]))

\* get_statistics
GetStatistics(method, h) ==
  /\ UNCHANGED <<store, now, pc, upd, hist>>
  /\ IF CheckAuthentication(method, h) # 0
     THEN /\ last' = Response("stats", method, h, 0, JsonNull,
                              CheckAuthentication(method, h), FALSE)
          /\ UNCHANGED stats
     ELSE /\ stats' = CountDocs(store, DOMAIN store, ZeroStats)
          /\ last' = Response("stats", method, h, 0, JsonNull, 200, TRUE)

\* ------------------------------------------------------------------ inputs
FullBody(pt) == [f \in RequiredFields |-> IF f = "pass_type" THEN pt ELSE "v"]

Without(d, f) == [k \in (DOMAIN d) \ {f} |-> d[k]]

Extras ==
  { EmptyDict,
    [k \in {"status"} |-> "Approved"],
    [k \in {"rejection_reason"} |-> "late"],
    [k \in {"status", "rejection_reason"} |->
        IF k = "status" THEN "Rejected" ELSE "late"] }

SubmitBodies ==
  {JsonNull, JsonObj(EmptyDict)}
  \cup {JsonObj(DictUpdate(FullBody(pt), e)) :
          pt \in {"local", "leave", "hostel"}, e \in Extras}
  \cup {JsonObj(Without(FullBody("local"), f)) : f \in RequiredFields}

UpdateBodies ==
  {JsonNull, JsonObj(EmptyDict)}
  \cup {JsonObj([k \in {"status"} |-> s]) :
          s \in {"Approved", "Rejected", "Pending"}}
  \cup {JsonObj([k \in {"status", "reason"} |-> IF k = "status" THEN s ELSE "late"]) :
          s \in {"Approved", "Rejected"}}

\* (method, body) pairs sent to /submit_gate_pass
SubmitRequests ==
  ({"POST"} \X SubmitBodies) \cup {<<"OPTIONS", JsonNull>>}

\* (method, body) pairs sent to /update_gate_pass/<id>
UpdateRequests ==
  ({"POST"} \X UpdateBodies) \cup {<<"OPTIONS", JsonNull>>}

Next ==
  \/ \E r \in SubmitRequests : SubmitGatePass(r[1], r[2], 0, 0)
  \/ \E r \in UpdateRequests, id \in Ids : UpdateGatePass(r[1], ValidHeader, id, r[2])

Spec == Init /\ [][Next]_vars

\* the server clock advances
Tick ==
  /\ now < MaxTime
  /\ now' = now + 1
  /\ UNCHANGED <<store, last, stats, pc, upd, hist>>

\* a plain body, and one that brings its own created_at and updated_at
ClockSubmitBodies ==
  { JsonObj(FullBody("local")),
    JsonObj(DictUpdate(FullBody("local"),
              [k \in {"created_at", "updated_at"} |->
                 IF k = "created_at" THEN MaxTime + 1 ELSE 0])) }

ClockUpdateBodies ==
  {JsonObj([k \in {"status"} |-> s]) : s \in {"Approved", "Rejected"}}

NextClock ==
  \/ Tick
  \/ \E d1 \in 0..1, d2 \in 0..1, data \in ClockSubmitBodies :
        SubmitGatePass("POST", data, d1, d2)
  \/ \E id \in Ids, data \in ClockUpdateBodies :
        UpdateGatePass("POST", ValidHeader, id, data)

SpecClock == Init /\ [][NextClock]_vars
\* every endpoint behind check_authentication, under every header
NextAuth ==
  \/ SubmitGatePass("POST", JsonObj(FullBody("local")), 0, 0)
  \/ \E m \in {"POST", "OPTIONS"}, h \in Headers, id \in Ids :
        UpdateGatePass(m, h, id, JsonObj([k \in {"status"} |-> "Approved"]))
  \/ \E m \in {"GET", "OPTIONS"}, h \in Headers : GetGatePasses(m, h)
  \/ \E m \in {"GET", "OPTIONS"}, h \in Headers : GetGatePassesPreview(m, h)
  \/ \E m \in {"GET", "OPTIONS"}, h \in Headers, id \in Ids :
        GetGatePassDetails(m, h, id)
  \/ \E m \in {"GET", "OPTIONS"}, h \in Headers, id \in Ids :
        DownloadPdf(m, h, id)
  \/ \E m \in {"GET", "OPTIONS"}, h \in Headers : GetStatistics(m, h)

SpecAuth == Init /\ [][NextAuth]_vars

\* documents as any writer of the collection may have left them
StatDocs ==
  LET pts == {EmptyDict} \cup
             {[k \in {"pass_type"} |-> v] : v \in {"local", "leave", "hostel"}}
      sts == {EmptyDict} \cup
             {[k \in {"status"} |-> v] :
                v \in {"Pending", "APPROVED", "rejected", "Rejected", "Cancelled"}}
  IN  {DictUpdate(p, q) : p \in pts, q \in sts}

InitStats ==
  /\ \E n \in 0..MaxRecords : store \in [1..n -> StatDocs]
  /\ now = 0
  /\ last = Idle
  /\ stats = ZeroStats
  /\ pc = EmptyDict
  /\ upd = EmptyDict
  /\ hist = EmptyDict

NextStats == GetStatistics("GET", ValidHeader)

SpecStats == InitStats /\ [][NextStats]_vars

\* ---- two update_gate_pass requests running concurrently on one identifier
Procs == {1, 2}

RaceBodies ==
  {JsonObj([k \in {"status"} |-> st]) : st \in {"Approved", "Rejected"}}
  \cup {JsonObj([k \in {"status", "reason"} |->
                   IF k = "status" THEN "Rejected" ELSE "late"])}

\* the record the two requests meet: new, or already decided
RaceDocs ==
  LET fresh == DictUpdate(FullBody("local"), SubmitStamps(0, 0, 0))
  IN  { fresh,
        DictUpdate(fresh, UpdateData("Approved", "", 0)),
        DictUpdate(fresh, UpdateData("Rejected", "old", 0)) }

InitRace ==
  /\ \E d \in RaceDocs : store = DocSet(EmptyDict, 1, d)
  /\ now = 0
  /\ last = Idle
  /\ stats = ZeroStats
  /\ pc = [p \in Procs |-> "get"]
  /\ upd = [p \in Procs |-> EmptyDict]
  /\ \E id \in Ids, b1 \in RaceBodies, b2 \in RaceBodies :
        hist = [id |-> id, orig |-> store,
                req |-> [p \in Procs |-> IF p = 1 THEN b1 ELSE b2],
                order |-> <<>>]

\* update_gate_pass up to the existence check (doc_ref.get())
RaceGet(p) ==
  /\ pc[p] = "get"
  /\ LET status == DictGet(hist.req[p].obj, "status", "None")
     IN  pc' = [pc EXCEPT ![p] =
                  IF status \notin UpdateStatuses THEN "r400"
                  ELSE IF ~DocExists(store, hist.id) THEN "r404"
                  ELSE "build"]
  /\ UNCHANGED <<store, now, last, stats, upd, hist>>

\* update_gate_pass building update_data (reads the clock)
RaceBuild(p) ==
  /\ pc[p] = "build"
  /\ upd' = [upd EXCEPT ![p] =
               UpdateData(DictGet(hist.req[p].obj, "status", "None"),
                          DictGet(hist.req[p].obj, "reason", ""), now)]
  /\ pc' = [pc EXCEPT ![p] = "update"]
  /\ UNCHANGED <<store, now, last, stats, hist>>

\* update_gate_pass: doc_ref.update(update_data), then the 200 response
RaceUpdate(p) ==
  /\ pc[p] = "update"
  /\ store' = DocUpdate(store, hist.id, upd[p])
  /\ hist' = [hist EXCEPT !.order = Append(@, p)]
  /\ pc' = [pc EXCEPT ![p] = "r200"]
  /\ UNCHANGED <<now, last, stats, upd>>

NextRace ==
  \/ Tick
  \/ \E p \in Procs : RaceGet(p)
  \/ \E p \in Procs : RaceBuild(p)
  \/ \E p \in Procs : RaceUpdate(p)

SpecRace == InitRace /\ [][NextRace]_vars

\* ------------------------------------------------------------------ claims
TenFields ==
  {"pass_type", "prn_number", "department", "name", "wing", "room_number",
   "reason", "phone_no", "proposed_visit", "outing_dates"}

ValidSubmission(data) ==
  /\ ~data.null
  /\ TenFields \subseteq DOMAIN data.obj
  /\ data.obj["pass_type"] \in {"local", "leave"}

SubmitStep == last'.op = "submit" /\ last'.method = "POST"

AuthUpdateStep ==
  last'.op = "update" /\ last'.method = "POST" /\ last'.hdr = ValidHeader

\* C2: a submission with all ten required fields and pass_type local or leave
\* returns 201 with an identifier no record had before; the store gains
\* exactly that record, with status Pending whatever status the body carried,
\* and every earlier record is unchanged.
SubmitCreatesFreshPending ==
  [][ (SubmitStep /\ ValidSubmission(last'.data)) =>
        /\ last'.code = 201
        /\ last'.id \notin DOMAIN store
        /\ DOMAIN store' = (DOMAIN store) \cup {last'.id}
        /\ store'[last'.id]["status"] = "Pending"
        /\ \A i \in DOMAIN store : store'[i] = store[i] ]_vars

SubmitCreatesFreshPendingWitness ==
  /\ last.op = "submit" /\ last.code = 201
  /\ "status" \in DOMAIN last.data.obj
  /\ last.data.obj["status"] = "Approved"
  /\ store[last.id]["status"] = "Pending"
  /\ \E i \in DOMAIN store : i # last.id /\ store[i]["status"] = "Rejected"

UnknownIdAlways404 ==
  [][ (AuthUpdateStep /\ last'.id \notin DOMAIN store) =>
        (last'.code = 404 /\ store' = store) ]_vars

\* C4 amended: an authenticated update of an identifier that is not in the
\* store mutates no record; it returns 404 when the body is an object whose
\* status is Approved or Rejected, 400 when the body is an object with another
\* status or none, and 500 when the body is not an object.
UnknownIdNoMutation ==
  [][ (AuthUpdateStep /\ last'.id \notin DOMAIN store) =>
        /\ store' = store
        /\ last'.code =
             IF last'.data.null THEN 500
             ELSE IF /\ "status" \in DOMAIN last'.data.obj
                     /\ last'.data.obj["status"] \in {"Approved", "Rejected"}
                  THEN 404
                  ELSE 400 ]_vars

UnknownIdNoMutationWitness ==
  /\ last.op = "update" /\ last.code = 404
  /\ last.id \notin DOMAIN store
  /\ store # EmptyDict

\* the fields of the record before and after a step, other than those in ks
SameExcept(old, new, ks) ==
  /\ (DOMAIN old) \ ks = (DOMAIN new) \ ks
  /\ \A k \in (DOMAIN old) \ ks : new[k] = old[k]

\* C5: a successful update to Rejected writes rejection_reason (the supplied
\* reason, or "" when none is supplied); a successful update to Approved
\* writes only status and updated_at, and every other field of the record,
\* rejection_reason included, stays as it was.
RejectionReasonWritten ==
  [][ (AuthUpdateStep /\ last'.code = 200) =>
        LET id == last'.id
            body == last'.data.obj
        IN  /\ id \in DOMAIN store
            /\ store'[id]["status"] = body["status"]
            /\ body["status"] = "Rejected" =>
                 /\ "rejection_reason" \in DOMAIN store'[id]
                 /\ store'[id]["rejection_reason"] =
                      (IF "reason" \in DOMAIN body THEN body["reason"] ELSE "")
                 /\ SameExcept(store[id], store'[id],
                               {"status", "updated_at", "rejection_reason"})
            /\ body["status"] = "Approved" =>
                 SameExcept(store[id], store'[id], {"status", "updated_at"}) ]_vars

RejectionReasonWrittenWitness ==
  /\ last.op = "update" /\ last.code = 200
  /\ ~last.data.null /\ "status" \in DOMAIN last.data.obj
  /\ last.data.obj["status"] = "Approved"
  /\ "rejection_reason" \notin DOMAIN store[last.id]
  /\ \E j \in DOMAIN store :
       /\ store[j]["status"] = "Rejected"
       /\ store[j]["rejection_reason"] = ""

\* C8 as stated: a record has a rejection_reason field only if its status is
\* Rejected.
ReasonOnlyWhenRejected ==
  \A i \in DOMAIN store :
    "rejection_reason" \in DOMAIN store[i] => store[i]["status"] = "Rejected"

\* C9 as stated: every change of a record's status is Pending to Approved or
\* Pending to Rejected.
OnlyFromPending ==
  [][ \A i \in DOMAIN store :
        store'[i]["status"] # store[i]["status"] =>
          /\ store[i]["status"] = "Pending"
          /\ store'[i]["status"] \in {"Approved", "Rejected"} ]_vars

\* C9 amended: every change of a record's status is a change to Approved or
\* to Rejected, from Pending or from the other of the two; no record ever
\* returns to Pending.
NeverBackToPending ==
  [][ \A i \in DOMAIN store :
        /\ i \in DOMAIN store'
        /\ store'[i]["status"] # store[i]["status"] =>
             store'[i]["status"] \in {"Approved", "Rejected"}
        /\ store[i]["status"] # "Pending" => store'[i]["status"] # "Pending" ]_vars

NeverBackToPendingWitness ==
  \E i \in DOMAIN store :
    /\ store[i]["status"] = "Approved"
    /\ "rejection_reason" \in DOMAIN store[i]
    /\ store[i]["rejection_reason"] = ""

\* C6: created_at keeps the value set at creation; updated_at is never
\* earlier than created_at; updated_at changes only in a step that is a
\* successful status update of that record.
TimestampsOrdered ==
  [][ /\ \A i \in DOMAIN store' :
           store'[i]["created_at"] <= store'[i]["updated_at"]
      /\ \A i \in DOMAIN store :
           /\ i \in DOMAIN store'
           /\ store'[i]["created_at"] = store[i]["created_at"]
           /\ store'[i]["updated_at"] # store[i]["updated_at"] =>
                (last'.op = "update" /\ last'.code = 200 /\ last'.id = i) ]_vars

TimestampsOrderedWitness ==
  \E i \in DOMAIN store :
    /\ store[i]["status"] = "Approved"
    /\ store[i]["timestamp"] < store[i]["created_at"]
    /\ store[i]["created_at"] < store[i]["updated_at"]
    /\ last.op = "update" /\ last.id = i /\ last.code = 200
\* C7: get_statistics returns counts where total.all = local.all + leave.all,
\* total.s = local.s + leave.s for s in pending, approved, rejected, every
\* status count is at most its bucket's all, and local.all and leave.all are
\* the numbers of records with that pass_type.
StatisticsAddUp ==
  (last.op = "stats" /\ last.code = 200) =>
    /\ \A c \in {"all", "pending", "approved", "rejected"} :
         stats["total"][c] = stats["local"][c] + stats["leave"][c]
    /\ \A b \in {"total", "local", "leave"} :
         \A c \in {"pending", "approved", "rejected"} :
           stats[b][c] <= stats[b]["all"]
    /\ \A t \in {"local", "leave"} :
         stats[t]["all"] =
           Cardinality({i \in DOMAIN store :
                          "pass_type" \in DOMAIN store[i]
                          /\ store[i]["pass_type"] = t})

StatisticsAddUpWitness ==
  /\ last.op = "stats" /\ last.code = 200
  /\ stats["total"]["all"] = 1
  /\ stats["local"]["rejected"] = 1
  /\ Cardinality(DOMAIN store) = 2
  /\ \E i \in DOMAIN store : "pass_type" \in DOMAIN store[i]
                             /\ store[i]["pass_type"] = "hostel"
ProtectedOps ==
  {"get_gate_passes", "update", "preview", "details", "pdf", "stats"}

ExactHeader == [present |-> TRUE, value |-> <<"Bearer", " ", "default_secret_token">>]

\* C1 as stated: for a non-OPTIONS request to a protected endpoint the wrapped
\* handler runs only when the Authorization header is exactly "Bearer "
\* followed by the shared secret; for every other header the response is 401
\* and the store is left as it was.
HandlerOnlyForExactHeader ==
  [][ (last'.op \in ProtectedOps /\ last'.method # "OPTIONS") =>
        /\ last'.ran => last'.hdr = ExactHeader
        /\ last'.hdr # ExactHeader => (last'.code = 401 /\ store' = store) ]_vars

RaceDone == \A p \in Procs : pc[p] \in {"r200", "r400", "r404"}

ReqStatus(p) == hist.req[p].obj["status"]
ReqReason(p) ==
  IF "reason" \in DOMAIN hist.req[p].obj THEN hist.req[p].obj["reason"] ELSE ""

\* the record after request a and then request b were applied to rec, b's
\* write carrying the time tb
AfterBoth(rec, a, b, tb) ==
  LET ks == (DOMAIN rec) \cup
            (IF "Rejected" \in {ReqStatus(a), ReqStatus(b)}
             THEN {"rejection_reason"} ELSE {})
  IN  [k \in ks |->
         CASE k = "status" -> ReqStatus(b)
           [] k = "updated_at" -> tb
           [] k = "rejection_reason" ->
                (IF ReqStatus(b) = "Rejected" THEN ReqReason(b)
                 ELSE IF ReqStatus(a) = "Rejected" THEN ReqReason(a)
                 ELSE rec[k])
           [] OTHER -> rec[k]]

\* C10: two concurrent valid updates of the same existing record both return
\* 200 under every interleaving; the record ends with the status,
\* rejection_reason and updated_at that the two writes give when applied in
\* the order they reached the store; and that record is one a serial
\* execution of the two requests produces.
LastWriteWins ==
  (RaceDone /\ DocExists(hist.orig, hist.id)) =>
    /\ \A p \in Procs : pc[p] = "r200"
    /\ Len(hist.order) = 2
    /\ store[hist.id] =
         AfterBoth(hist.orig[hist.id], hist.order[1], hist.order[2],
                   upd[hist.order[2]]["updated_at"])
    /\ \E a \in Procs, b \in Procs, tb \in 0..now :
         /\ a # b
         /\ store[hist.id] = AfterBoth(hist.orig[hist.id], a, b, tb)
    /\ \A i \in DOMAIN store : i # hist.id => store[i] = hist.orig[i]

LastWriteWinsWitness ==
  /\ RaceDone /\ DocExists(hist.orig, hist.id)
  /\ hist.order = <<1, 2>>
  /\ upd[2]["updated_at"] < upd[1]["updated_at"]
  /\ ReqStatus(1) = "Rejected" /\ ReqReason(1) = "late"
  /\ ReqStatus(2) = "Approved"
  /\ store[hist.id]["status"] = "Approved"
  /\ store[hist.id]["rejection_reason"] = "late"
  /\ store[hist.id]["updated_at"] < now
====
